---- MODULE Spec2Model ----
(***************************************************************************)
(* The weekly-traffic notebook (Sonify_Weekly_Traffic_to_csv.ipynb) as a   *)
(* state machine.  The state is the notebook kernel's global names plus    *)
(* the input directory and the output file; there is one action per code   *)
(* cell, executed in order by "Run All", which stops at the first cell     *)
(* that raises.                                                            *)
(*                                                                         *)
(* Representation.                                                         *)
(*  - A CSV file is a sequence of lines, a line a tuple of cells; line 1   *)
(*    is the header line.                                                  *)
(*  - A DataFrame is [columns |-> names, rows |-> tuples]; columns are     *)
(*    reached by position (iloc) or by name (ColIdx).                      *)
(*  - Every number (a traffic cell, a mean, the scaling factor) is an     *)
(*    exact fraction [n, d] in lowest terms; Dec(w, f) is w + f/10000.     *)
(*    d = 0 stands for the float results inf (n # 0) and nan (n = 0).      *)
(*    Float rounding is not modelled.                                      *)
(*  - A Time cell is an ISO date text YYYY-MM-DD, kept as <<y, m, d>>;     *)
(*    the order of such texts is the lexicographic order of the tuples.    *)
(***************************************************************************)
EXTENDS Integers, Sequences, FiniteSets, TLC

\* Bounds of the model.
MaxRows == 3
MaxFiles == 2
MaxRuns == 2

\* Program constants.
FLAG == 256
NBINS == 48

----------------------------------------------------------------------------
\* Calendar (pandas .dt accessors on a parsed date <<y, m, d>>).

IsLeap(y) == (y % 4 = 0 /\ y % 100 # 0) \/ y % 400 = 0

DaysInMonth(y, m) ==
    IF m = 2 THEN (IF IsLeap(y) THEN 29 ELSE 28)
    ELSE IF m \in {4, 6, 9, 11} THEN 30 ELSE 31

RECURSIVE DaysBeforeMonth(_, _)
DaysBeforeMonth(y, m) ==
    IF m = 1 THEN 0 ELSE DaysBeforeMonth(y, m - 1) + DaysInMonth(y, m - 1)

DayOfYear(t) == DaysBeforeMonth(t[1], t[2]) + t[3]

\* Proleptic Gregorian ordinal: 0001-01-01 is day 1 and a Monday.
Ordinal(t) ==
    LET y1 == t[1] - 1
    IN  y1 * 365 + (y1 \div 4) - (y1 \div 100) + (y1 \div 400) + DayOfYear(t)

\* ISO weekday, Monday = 1 .. Sunday = 7.
Weekday(t) == ((Ordinal(t) - 1) % 7) + 1

IsMonday(t) == Weekday(t) = 1
IsMonthStart(t) == t[3] = 1
IsYearStart(t) == t[2] = 1 /\ t[3] = 1

\* 28 December always lies in the last ISO week of its year.
WeeksInYear(y) ==
    (DayOfYear(<<y, 12, 28>>) - Weekday(<<y, 12, 28>>) + 10) \div 7

\* Mutant: the week counted from 1 January (not the ISO-8601 week).
PlainWeek(t) == ((DayOfYear(t) - 1) \div 7) + 1

\* dt.isocalendar().week
ISOWeek(t) ==
    LET w == (DayOfYear(t) - Weekday(t) + 10) \div 7
    IN  IF w < 1 THEN WeeksInYear(t[1] - 1)
        ELSE IF w > WeeksInYear(t[1]) THEN 1
        ELSE w

\* dt.year
CalYear(t) == t[1]

\* The Monday that starts the calendar week of t, as an ordinal.
WeekMonday(t) == Ordinal(t) - (Weekday(t) - 1)

\* Order of two ISO date texts.
TimeLess(a, b) ==
    \/ a[1] < b[1]
    \/ a[1] = b[1] /\ a[2] < b[2]
    \/ a[1] = b[1] /\ a[2] = b[2] /\ a[3] < b[3]

----------------------------------------------------------------------------
\* Exact fractions.

Abs(x) == IF x < 0 THEN -x ELSE x
Sign(x) == IF x > 0 THEN 1 ELSE IF x < 0 THEN -1 ELSE 0

RECURSIVE GCD(_, _)
GCD(a, b) == IF b = 0 THEN a ELSE GCD(b, a % b)

\* n/d in lowest terms with d >= 0; n/0 is inf, -inf or nan by the sign of n.
Frac(n, d) ==
    IF d = 0 THEN [n |-> Sign(n), d |-> 0]
    ELSE LET g == GCD(Abs(n), Abs(d))
         IN  [n |-> Sign(d) * (n \div g), d |-> Abs(d) \div g]

FZero == [n |-> 0, d |-> 1]
FNaN == [n |-> 0, d |-> 0]
FInt(k) == [n |-> k, d |-> 1]
IsNaN(a) == a.d = 0 /\ a.n = 0

\* Float comparisons: every comparison with nan is False.
FLess(a, b) ==
    /\ ~IsNaN(a)
    /\ ~IsNaN(b)
    /\ IF a.d = 0 \/ b.d = 0 THEN a.n * b.d < b.n * a.d
       ELSE LET g == GCD(a.d, b.d)
            IN  a.n * (b.d \div g) < b.n * (a.d \div g)
FAbs(a) == [n |-> Abs(a.n), d |-> a.d]

\* Sum and difference of finite fractions, over the least common denominator.
FAdd(a, b) ==
    LET g == GCD(a.d, b.d)
    IN  Frac(a.n * (b.d \div g) + b.n * (a.d \div g), (a.d \div g) * b.d)
FSub(a, b) == FAdd(a, [n |-> -b.n, d |-> b.d])

\* Product, cancelling across before multiplying.
FMul(a, b) ==
    IF a.d = 0 \/ b.d = 0 THEN Frac(a.n * b.n, 0)
    ELSE LET g1 == GCD(Abs(a.n), b.d)
             g2 == GCD(Abs(b.n), a.d)
         IN  Frac((a.n \div g1) * (b.n \div g2), (a.d \div g2) * (b.d \div g1))

\* Quotient of non-negative floats: x/0 is inf for x > 0 and nan for x = 0.
FDiv(a, b) ==
    IF b.d = 0 \/ a.d = 0 THEN (IF IsNaN(a) \/ IsNaN(b) \/ a.d = b.d THEN FNaN
                                ELSE IF b.d = 0 THEN FZero ELSE a)
    ELSE FMul(a, [n |-> b.d, d |-> b.n])

\* The decimal w + f/10000.
Dec(w, f) == Frac(w * 10000 + f, 10000)

----------------------------------------------------------------------------
\* DataFrames.

EmptyFrame == [columns |-> <<>>, rows |-> <<>>]

\* Position of the column called name.
ColIdx(f, name) == CHOOSE i \in 1..Len(f.columns) : f.columns[i] = name
HasCol(f, name) == \E i \in 1..Len(f.columns) : f.columns[i] = name

\* f[name] as a sequence of values.
Col(f, name) == [i \in 1..Len(f.rows) |-> f.rows[i][ColIdx(f, name)]]

\* f[name] = vals (a new column appended on the right).
WithCol(f, name, vals) ==
    [columns |-> Append(f.columns, name),
     rows |-> [i \in 1..Len(f.rows) |-> Append(f.rows[i], vals[i])]]

RECURSIVE Flatten(_)
Flatten(ss) == IF ss = <<>> THEN <<>> ELSE Head(ss) \o Flatten(Tail(ss))

RECURSIVE FSum(_)
FSum(vals) == IF vals = <<>> THEN FZero ELSE FAdd(Head(vals), FSum(Tail(vals)))

\* Series.max() / Series.min(): nan on an empty series.
RECURSIVE FMax(_)
FMax(vals) ==
    IF vals = <<>> THEN FNaN
    ELSE IF Len(vals) = 1 THEN vals[1]
    ELSE LET m == FMax(Tail(vals))
         IN  IF FLess(m, Head(vals)) THEN Head(vals) ELSE m

RECURSIVE FMin(_)
FMin(vals) ==
    IF vals = <<>> THEN FNaN
    ELSE IF Len(vals) = 1 THEN vals[1]
    ELSE LET m == FMin(Tail(vals))
         IN  IF FLess(Head(vals), m) THEN Head(vals) ELSE m

----------------------------------------------------------------------------
\* The input directory: CSV exports of the portal.  Every file carries the
\* same three-column header line (spec section 6).

Header == <<"Time", "Traffic In", "Traffic Out">>

\* Data lines the input files are drawn from.  Family A exercises the
\* calendar, the zero filter and the trends; family B the magnitudes;
\* family C a partial week across a month start and an unparseable date.
\*   2024-01-01 Mon (ISO week 1 of 2024)   2024-01-08 Mon (week 2)
\*   2024-01-15 Mon (week 3)               2024-01-09 Tue (week 2)
\*   2024-12-30 Mon (ISO week 1 of 2025)   2025-01-01 Wed (ISO week 1 of 2025)
RowsA ==
    { << <<2024, 1, 1>>,   Dec(10, 0), Dec(5, 0) >>,
      << <<2024, 1, 8>>,   Dec(20, 0), Dec(5, 0) >>,
      << <<2024, 1, 15>>,  Dec(10, 0), Dec(3, 0) >>,
      << <<2024, 12, 30>>, Dec(20, 0), Dec(4, 0) >>,
      << <<2024, 1, 9>>,   Dec(10, 0), Dec(0, 0) >>,
      << <<2025, 1, 1>>,   Dec(0, 0),  Dec(0, 1) >> }

RowsB ==
    { << <<2024, 1, 1>>, Dec(100, 0), Dec(500, 0) >>,
      << <<2024, 1, 2>>, Dec(50, 0),  Dec(1000, 0) >>,
      << <<2024, 1, 8>>, Dec(50, 0),  Dec(500, 0) >> }

\* Family C: three days of one calendar week (Monday 2024-01-29 to Sunday
\* 2024-02-04, ISO week 5), the last of them a month start, and one line
\* whose Time cell is not a date (a text such as "n/a", which sorts after
\* every date text and which to_datetime cannot parse; kept as <<9999, 0, 0>>).
NotADate == <<9999, 0, 0>>

RowsC ==
    { << <<2024, 1, 30>>, Dec(10, 0), Dec(1, 0) >>,
      << <<2024, 1, 31>>, Dec(20, 0), Dec(2, 0) >>,
      << <<2024, 2, 1>>,  Dec(30, 0), Dec(3, 0) >>,
      << NotADate,        Dec(5, 0),  Dec(5, 0) >> }

SeqsUpTo(S, n) == UNION { [1..k -> S] : k \in 0..n }

\* An export lists its days in chronological order, one line per day.
Chronological(s) == \A i \in 1..(Len(s) - 1) : TimeLess(s[i][1], s[i + 1][1])

\* The files that can be made of the data lines S.
FilesOf(S) ==
    { <<Header>> \o s : s \in { q \in SeqsUpTo(S, MaxRows) : Chronological(q) } }

RECURSIVE DataLines(_)
DataLines(dir) ==
    IF dir = <<>> THEN 0 ELSE (Len(Head(dir)) - 1) + DataLines(Tail(dir))

\* Directories of at most MaxFiles files holding at most MaxRows data lines
\* in all.  Files may overlap (the same day exported twice).
DirsOf(S) ==
    { dir \in SeqsUpTo(FilesOf(S), MaxFiles) : DataLines(dir) <= MaxRows }

Dirs == DirsOf(RowsA) \cup DirsOf(RowsB) \cup DirsOf(RowsC)

----------------------------------------------------------------------------
VARIABLES
    input_dir,         \* ./input/*.csv, in the order the file system lists them
    output_file,       \* ./output/Processed_traffic.csv: <<>> (absent) or <<table>>
    written,           \* history: the table each to_csv call wrote
    pc,                \* the code cell "Run All" executes next (1..7; 8 = past the last)
    status,            \* "running", "done", or the exception the cell at pc raised
    runs,              \* "Run All" invocations so far
    files, df_list, header_flag, df,                    \* kernel globals
    weekly_df, in_max, out_max, scaling_factor, out_quant_scaled, final_df

vars == <<input_dir, output_file, written, pc, status, runs, files, df_list,
          header_flag, df, weekly_df, in_max, out_max, scaling_factor,
          out_quant_scaled, final_df>>

env == <<input_dir, runs>>
cell1_vars == <<files>>
cell2_vars == <<df_list, header_flag, df>>
cell5_vars == <<in_max, out_max, scaling_factor, out_quant_scaled>>

\* A fresh kernel: no global is bound yet (shown as empty values), no output
\* file exists, and "Run All" is about to execute the first code cell.
Init ==
    /\ input_dir \in Dirs
    /\ output_file = <<>>
    /\ written = <<>>
    /\ pc = 1
    /\ status = "running"
    /\ runs = 1
    /\ files = <<>>
    /\ df_list = <<>>
    /\ header_flag = FALSE
    /\ df = EmptyFrame
    /\ weekly_df = EmptyFrame
    /\ in_max = FNaN
    /\ out_max = FNaN
    /\ scaling_factor = FNaN
    /\ out_quant_scaled = <<>>
    /\ final_df = EmptyFrame

Running(c) == status = "running" /\ pc = c

----------------------------------------------------------------------------
\* Cell 1: files = glob.glob('./input/*.csv')

Glob(dir) == dir

Cell1 ==
    /\ Running(1)
    /\ files' = Glob(input_dir)
    /\ pc' = 2
    /\ UNCHANGED <<env, output_file, written, status, cell2_vars, weekly_df,
                   cell5_vars, final_df>>

----------------------------------------------------------------------------
\* Cell 2: load, filter, concatenate, sort, rename.

\* pd.read_csv(file): the first line names the columns, the rest are the rows.
ReadCsv(file) == [columns |-> Head(file), rows |-> Tail(file)]

\* Mutant: no row is dropped (read_csv has consumed the header line already).
ILocKeepAll(f) == f

\* df_temp.iloc[1:]
ILocFrom1(f) == [f EXCEPT !.rows = IF @ = <<>> THEN <<>> ELSE Tail(@)]

\* Mutant: the zero filter reads the second column.
DropZeroSecond(f) == [f EXCEPT !.rows = SelectSeq(@, LAMBDA r : r[2].n # 0)]

\* df_temp[df_temp.iloc[:, 2] != 0]
DropZeroRows(f) == [f EXCEPT !.rows = SelectSeq(@, LAMBDA r : r[3].n # 0)]

\* One iteration of the loop body, before the append.
LoadOne(file, flag) ==
    LET df_temp == ReadCsv(file)
        kept == IF ~flag THEN df_temp ELSE ILocFrom1(df_temp)
    IN  IF Len(kept.columns) > 2 THEN DropZeroRows(kept) ELSE kept

\* for file in files: ...   (lst is df_list, flag is header_flag)
RECURSIVE LoadLoop(_, _, _)
LoadLoop(fs, lst, flag) ==
    IF fs = <<>> THEN [df_list |-> lst, header_flag |-> flag]
    ELSE LoadLoop(Tail(fs), Append(lst, LoadOne(Head(fs), flag)), TRUE)

\* Mutant: the flag is not reset, it keeps the value the previous run left.
HeaderFlagKept == header_flag

\* header_flag = False
HeaderFlagReset == FALSE

\* Mutant: an empty list concatenates to an empty frame.
ConcatTolerant(lst) == FALSE

\* pd.concat raises ValueError on an empty list.
ConcatRaises(lst) == lst = <<>>

\* pd.concat(df_list, ignore_index=True) of frames with the same columns.
Concat(lst) ==
    [columns |-> IF lst = <<>> THEN <<>> ELSE lst[1].columns,
     rows |-> Flatten([i \in 1..Len(lst) |-> lst[i].rows])]

\* Insertion of row r into rows sorted by column k, after its equals.
RECURSIVE InsertByTime(_, _, _)
InsertByTime(r, sorted, k) ==
    IF sorted = <<>> THEN <<r>>
    ELSE IF TimeLess(r[k], Head(sorted)[k]) THEN <<r>> \o sorted
    ELSE <<Head(sorted)>> \o InsertByTime(r, Tail(sorted), k)

RECURSIVE SortRows(_, _)
SortRows(rows, k) ==
    IF rows = <<>> THEN <<>>
    ELSE InsertByTime(rows[Len(rows)], SortRows(SubSeq(rows, 1, Len(rows) - 1), k), k)

\* df.sort_values('Time', ascending=True): the Time cells are still text.
\* Rows with equal Time keep their order here; nothing later depends on
\* the order of df's rows.
SortValues(f, name) == [f EXCEPT !.rows = SortRows(@, ColIdx(f, name))]

\* df.columns = ['Time', 'in', 'out']
Renamed(f) == [f EXCEPT !.columns = <<"Time", "in", "out">>]

Cell2 ==
    /\ Running(2)
    /\ LET loop == LoadLoop(files, <<>>, HeaderFlagReset)
       IN  /\ df_list' = loop.df_list
           /\ header_flag' = loop.header_flag
           /\ IF ConcatRaises(loop.df_list)
              THEN \* ValueError: No objects to concatenate
                   /\ status' = "ValueError"
                   /\ UNCHANGED <<pc, df>>
              ELSE LET cat == Concat(loop.df_list)
                   IN  IF HasCol(cat, "Time") /\ Len(cat.columns) = 3
                       THEN /\ df' = Renamed(SortValues(cat, "Time"))
                            /\ pc' = 3
                            /\ UNCHANGED status
                       ELSE \* sort_values: KeyError 'Time'; df.columns: length mismatch
                            /\ status' = "KeyError"
                            /\ UNCHANGED <<pc, df>>
    /\ UNCHANGED <<env, output_file, written, files, weekly_df, cell5_vars,
                   final_df>>

----------------------------------------------------------------------------
\* Cell 3: time features.

\* A Time cell pd.to_datetime(..., format='mixed') can parse.
Parseable(c) ==
    /\ Len(c) = 3
    /\ c[2] \in 1..12
    /\ c[3] \in 1..DaysInMonth(c[1], c[2])

\* pd.to_datetime on one ISO date text.
ToDatetime(c) == c

\* np.where(cond, 256, 0)
Where(cond) == IF cond THEN FLAG ELSE 0

\* Mutant: the week is taken to start on Sunday.
WeekStartSunday(t) == Where(Weekday(t) = 7)

WeekStartFlag(t) == Where(IsMonday(t))
MonthStartFlag(t) == Where(IsMonthStart(t))
YearStartFlag(t) == Where(IsYearStart(t))

DeriveTimeFeatures(f) ==
    LET t == [i \in 1..Len(f.rows) |-> ToDatetime(f.rows[i][ColIdx(f, "Time")])]
        parsed == [f EXCEPT !.rows =
                     [i \in 1..Len(f.rows) |->
                        [f.rows[i] EXCEPT ![ColIdx(f, "Time")] = t[i]]]]
        f1 == WithCol(parsed, "Week_Start", [i \in 1..Len(t) |-> WeekStartFlag(t[i])])
        f2 == WithCol(f1, "Month_Start", [i \in 1..Len(t) |-> MonthStartFlag(t[i])])
        f3 == WithCol(f2, "Year_Start", [i \in 1..Len(t) |-> YearStartFlag(t[i])])
        f4 == WithCol(f3, "Week_Number", [i \in 1..Len(t) |-> ISOWeek(t[i])])
    IN  WithCol(f4, "Year", [i \in 1..Len(t) |-> CalYear(t[i])])

\* Mutant: rows whose Time cell cannot be parsed are skipped and the cell
\* carries on with the rest.
Cell3SkipRows ==
    /\ Running(3)
    /\ df' = DeriveTimeFeatures(
                [df EXCEPT !.rows =
                    SelectSeq(@, LAMBDA r : Parseable(r[ColIdx(df, "Time")]))])
    /\ pc' = 4
    /\ UNCHANGED <<env, output_file, written, status, files, df_list,
                   header_flag, weekly_df, cell5_vars, final_df>>

Cell3 ==
    /\ Running(3)
    /\ IF \A i \in 1..Len(df.rows) : Parseable(df.rows[i][ColIdx(df, "Time")])
       THEN /\ df' = DeriveTimeFeatures(df)
            /\ pc' = 4
            /\ UNCHANGED status
       ELSE \* to_datetime raises on the first cell it cannot parse
            /\ status' = "DateParseError"
            /\ UNCHANGED <<pc, df>>
    /\ UNCHANGED <<env, output_file, written, files, df_list, header_flag,
                   weekly_df, cell5_vars, final_df>>

----------------------------------------------------------------------------
\* Cell 4: weekly aggregation.

\* The group key of a daily row: (Year, Week_Number).
KeyOf(f, r) == <<r[ColIdx(f, "Year")], r[ColIdx(f, "Week_Number")]>>

KeyLess(a, b) == a[1] < b[1] \/ (a[1] = b[1] /\ a[2] < b[2])

\* The distinct keys in ascending order (groupby sorts its keys).
RECURSIVE SortedKeys(_)
SortedKeys(ks) ==
    IF ks = {} THEN <<>>
    ELSE LET m == CHOOSE k \in ks : \A o \in ks : ~KeyLess(o, k)
         IN  <<m>> \o SortedKeys(ks \ {m})

GroupKeys(f) == SortedKeys({ KeyOf(f, f.rows[i]) : i \in 1..Len(f.rows) })

\* The rows of one group, as a frame.
Group(f, k) == [f EXCEPT !.rows = SelectSeq(@, LAMBDA r : KeyOf(f, r) = k)]

\* Mutant: the sum of the group's values over a full week of 7 days.
MeanOver7(vals) == FMul(FSum(vals), Frac(1, 7))

\* 'mean'
Mean(vals) == FMul(FSum(vals), Frac(1, Len(vals)))

\* Mutant: the flags are averaged like the traffic columns.
MeanFlag(vals) ==
    (FLAG * Cardinality({ i \in 1..Len(vals) : vals[i] = FLAG })) \div Len(vals)

\* 'max' of an integer column
RECURSIVE MaxFlag(_)
MaxFlag(vals) ==
    IF Len(vals) = 1 THEN vals[1]
    ELSE LET m == MaxFlag(Tail(vals))
         IN  IF Head(vals) > m THEN Head(vals) ELSE m

\* df.groupby(['Year', 'Week_Number']).agg(...).reset_index()
AggregateWeekly(f) ==
    LET keys == GroupKeys(f)
    IN  [columns |-> <<"Year", "Week_Number", "in_mean", "out_mean",
                       "Year_Start", "Month_Start">>,
         rows |-> [i \in 1..Len(keys) |->
                     LET g == Group(f, keys[i])
                     IN  <<keys[i][1], keys[i][2],
                           Mean(Col(g, "in")), Mean(Col(g, "out")),
                           MaxFlag(Col(g, "Year_Start")),
                           MaxFlag(Col(g, "Month_Start"))>>]]

Cell4 ==
    /\ Running(4)
    /\ weekly_df' = AggregateWeekly(df)
    /\ pc' = 5
    /\ UNCHANGED <<env, output_file, written, status, files, cell2_vars,
                   cell5_vars, final_df>>

----------------------------------------------------------------------------
\* Cell 5: the scaling factor and the scaled, quantized upload series.

Thousandth == Frac(1, 1000)

\* np.linspace(lo, hi, bins + 1)[k]
Linspace(lo, hi, bins, k) ==
    FAdd(lo, FMul(FInt(k), FMul(FSub(hi, lo), Frac(1, bins))))

\* The bin edges pd.cut derives from an integer bin count (right = True):
\* bins equal-width intervals from the minimum to the maximum, the lowest
\* edge moved down by 0.1% of the range so that the minimum falls inside;
\* for a constant series the range is first widened by 0.1% on both sides.
CutEdges(vals, bins) ==
    LET mn == FMin(vals)
        mx == FMax(vals)
    IN  IF mn = mx
        THEN LET pad == IF mn.n # 0 THEN FMul(Thousandth, FAbs(mn)) ELSE Thousandth
             IN  [k \in 0..bins |-> Linspace(FSub(mn, pad), FAdd(mx, pad), bins, k)]
        ELSE [k \in 0..bins |->
                IF k = 0 THEN FSub(mn, FMul(FSub(mx, mn), Thousandth))
                ELSE Linspace(mn, mx, bins, k)]

\* np.searchsorted(edges, x, side='left'): how many edges lie below x.
SearchSortedLeft(edges, x) ==
    Cardinality({ k \in DOMAIN edges : FLess(edges[k], x) })

\* Mutant: bins numbered from 0 (the bin's code, not its label).
CutCodes(vals, bins) ==
    LET edges == CutEdges(vals, bins)
    IN  [i \in 1..Len(vals) |-> FInt(SearchSortedLeft(edges, vals[i]) - 1)]

\* pd.cut(vals, bins=bins, labels=range(1, bins + 1)).astype(float):
\* the value in the interval (edges[k-1], edges[k]] gets the label k; a value
\* in no interval gets nan.
Cut(vals, bins) ==
    LET edges == CutEdges(vals, bins)
    IN  [i \in 1..Len(vals) |->
           LET ids == SearchSortedLeft(edges, vals[i])
           IN  IF ids = 0 \/ ids = bins + 1 THEN FNaN ELSE FInt(ids)]

\* Mutant: the maxima of the weekly means.
ScalingFactorWeekly(daily, weekly) ==
    FDiv(FMax(Col(weekly, "out_mean")), FMax(Col(weekly, "in_mean")))

\* scaling_factor = df['out'].max() / df['in'].max()
ScalingFactor(daily, weekly) ==
    FDiv(FMax(Col(daily, "out")), FMax(Col(daily, "in")))

\* pd.cut(weekly_df['out_mean'], ...).astype(float) * scaling_factor
OutQuantScaled(weekly, factor) ==
    LET labels == Cut(Col(weekly, "out_mean"), NBINS)
    IN  [i \in 1..Len(labels) |-> FMul(labels[i], factor)]

\* Mutant: the scaled series replaces the out_mean column of the weekly table.
Cell5ScalesOutMean ==
    /\ Running(5)
    /\ in_max' = FMax(Col(df, "in"))
    /\ out_max' = FMax(Col(df, "out"))
    /\ scaling_factor' = ScalingFactor(df, weekly_df)
    /\ IF weekly_df.rows = <<>>
       THEN /\ status' = "ValueError"
            /\ UNCHANGED <<pc, out_quant_scaled, weekly_df>>
       ELSE /\ out_quant_scaled' = OutQuantScaled(weekly_df, scaling_factor')
            /\ weekly_df' =
                  [weekly_df EXCEPT !.rows =
                      [i \in 1..Len(@) |->
                          [@[i] EXCEPT ![ColIdx(weekly_df, "out_mean")] =
                              out_quant_scaled'[i]]]]
            /\ pc' = 6
            /\ UNCHANGED status
    /\ UNCHANGED <<env, output_file, written, files, cell2_vars, final_df>>

Cell5 ==
    /\ Running(5)
    /\ in_max' = FMax(Col(df, "in"))
    /\ out_max' = FMax(Col(df, "out"))
    /\ scaling_factor' = ScalingFactor(df, weekly_df)
    /\ IF weekly_df.rows = <<>>
       THEN \* pd.cut raises ValueError: Cannot cut empty array
            /\ status' = "ValueError"
            /\ UNCHANGED <<pc, out_quant_scaled>>
       ELSE /\ out_quant_scaled' = OutQuantScaled(weekly_df, scaling_factor')
            /\ pc' = 6
            /\ UNCHANGED status
    /\ UNCHANGED <<env, output_file, written, files, cell2_vars, weekly_df,
                   final_df>>

----------------------------------------------------------------------------
\* Cell 6: trends.

\* Series.shift(): every value moves down one row, the first becomes nan.
Shift(vals) == [i \in 1..Len(vals) |-> IF i = 1 THEN FNaN ELSE vals[i - 1]]

\* Mutant: a week that does not fall counts as rising.
IsUpOrFlat(vals) == [i \in 1..Len(vals) |-> ~FLess(vals[i], Shift(vals)[i])]

\* Mutant: a week counts as falling whenever it differs from the one before.
IsChanged(vals) == [i \in 1..Len(vals) |-> vals[i] # Shift(vals)[i]]

\* vals > vals.shift()   and   vals < vals.shift()
IsUp(vals) == [i \in 1..Len(vals) |-> FLess(Shift(vals)[i], vals[i])]
IsDown(vals) == [i \in 1..Len(vals) |-> FLess(vals[i], Shift(vals)[i])]

\* vals.where(cond, 0)
WhereElse0(vals, cond) == [i \in 1..Len(vals) |-> IF cond[i] THEN vals[i] ELSE FZero]

CaptureTrends(w) ==
    LET in_mean == Col(w, "in_mean")
        out_mean == Col(w, "out_mean")
        w1 == WithCol(w, "in_up", WhereElse0(in_mean, IsUp(in_mean)))
        w2 == WithCol(w1, "in_down", WhereElse0(in_mean, IsDown(in_mean)))
        w3 == WithCol(w2, "out_up", WhereElse0(out_mean, IsUp(out_mean)))
    IN  WithCol(w3, "out_down", WhereElse0(out_mean, IsDown(out_mean)))

Cell6 ==
    /\ Running(6)
    /\ weekly_df' = CaptureTrends(weekly_df)
    /\ pc' = 7
    /\ UNCHANGED <<env, output_file, written, status, files, cell2_vars,
                   cell5_vars, final_df>>

----------------------------------------------------------------------------
\* Cell 7: rename, select, write.

\* weekly_df.rename(columns={'in_mean': 'in', 'out_mean': 'out'})
RenameMeans(f) ==
    [f EXCEPT !.columns =
        [i \in 1..Len(f.columns) |->
            IF f.columns[i] = "in_mean" THEN "in"
            ELSE IF f.columns[i] = "out_mean" THEN "out"
            ELSE f.columns[i]]]

\* Mutant: the group keys are kept in front.
ColumnsWithKeys ==
    <<"Year", "Week_Number", "in", "out", "Month_Start", "Year_Start",
      "in_up", "in_down", "out_up", "out_down">>

columns_to_keep ==
    <<"in", "out", "Month_Start", "Year_Start",
      "in_up", "in_down", "out_up", "out_down">>

\* f[names]
Select(f, names) ==
    [columns |-> names,
     rows |-> [i \in 1..Len(f.rows) |->
                 [j \in 1..Len(names) |-> f.rows[i][ColIdx(f, names[j])]]]]

\* to_csv(path, index=False): the header line, then one line per row.
ToCsv(f) == <<f.columns>> \o f.rows

Cell7 ==
    /\ Running(7)
    /\ LET renamed == RenameMeans(weekly_df)
       IN  IF \A j \in 1..Len(columns_to_keep) : HasCol(renamed, columns_to_keep[j])
           THEN /\ final_df' = Select(renamed, columns_to_keep)
                /\ output_file' = <<ToCsv(final_df')>>
                /\ written' = Append(written, ToCsv(final_df'))
                /\ pc' = 8
                /\ status' = "done"
           ELSE \* KeyError: a column of columns_to_keep is missing
                /\ status' = "KeyError"
                /\ UNCHANGED <<pc, final_df, output_file, written>>
    /\ UNCHANGED <<env, files, cell2_vars, weekly_df, cell5_vars>>

----------------------------------------------------------------------------
\* "Run All" again in the same kernel: every global keeps its value until a
\* cell rebinds it; the input directory is unchanged.

RunAll ==
    /\ status # "running"
    /\ runs < MaxRuns
    /\ runs' = runs + 1
    /\ pc' = 1
    /\ status' = "running"
    /\ UNCHANGED <<input_dir, output_file, written, files, cell2_vars,
                   weekly_df, cell5_vars, final_df>>

Next == Cell1 \/ Cell2 \/ Cell3 \/ Cell4 \/ Cell5 \/ Cell6 \/ Cell7 \/ RunAll

Spec == Init /\ [][Next]_vars

----------------------------------------------------------------------------
\* Properties.

\* Comparisons of finite fractions, by cross-multiplication.
RatLt(a, b) == a.n * b.d < b.n * a.d

\* The data lines of input file i that are genuine observations.
DataLinesOf(i) == Tail(files[i])

Seq2Set(q) == { q[i] : i \in 1..Len(q) }

C2_GroupsAreCalendarWeeks ==
    status = "done" =>
        \A a, b \in Seq2Set(df.rows) :
            /\ (KeyOf(df, a) = KeyOf(df, b)) <=> (WeekMonday(a[1]) = WeekMonday(b[1]))
            /\ KeyLess(KeyOf(df, a), KeyOf(df, b)) => WeekMonday(a[1]) < WeekMonday(b[1])

\* C3 (as claimed): two files with identical headers and N and M data rows,
\* none with a zero third column, load to exactly N + M rows.
C3_HeaderDedupKeepsAllRows ==
    (/\ pc >= 3
     /\ Len(files) = 2
     /\ \A i \in 1..2 : \A r \in Seq2Set(DataLinesOf(i)) : r[3].n # 0)
    => Len(df.rows) = Len(DataLinesOf(1)) + Len(DataLinesOf(2))

\* C4: for c in {in_mean, out_mean} and every week i in order, c_up[i] is
\* the value of week i if it has a predecessor and exceeds it, else 0, and
\* c_down[i] is the value if it has a predecessor and is below it, else 0.
TrendOf(c, up, down) ==
    LET v == Col(weekly_df, c)
        u == Col(weekly_df, up)
        d == Col(weekly_df, down)
    IN  \A i \in 1..Len(v) :
            /\ u[i] = IF i > 1 /\ RatLt(v[i - 1], v[i]) THEN v[i] ELSE FZero
            /\ d[i] = IF i > 1 /\ RatLt(v[i], v[i - 1]) THEN v[i] ELSE FZero

C4_TrendIsolation ==
    pc >= 7 =>
        /\ TrendOf("in_mean", "in_up", "in_down")
        /\ TrendOf("out_mean", "out_up", "out_down")

\* The weekly out means [5, 5, 3] give up = [0, 0, 0] and down = [0, 0, 3].
C4_Witness ==
    /\ pc >= 7
    /\ Col(weekly_df, "out_mean") = <<FInt(5), FInt(5), FInt(3)>>
    /\ Col(weekly_df, "out_up") = <<FZero, FZero, FZero>>
    /\ Col(weekly_df, "out_down") = <<FZero, FZero, FInt(3)>>
    /\ Col(weekly_df, "in_up")[2] = FInt(20)

\* The data lines of file i that survive the header handling.
AfterHeaderHandling(i) ==
    IF i = 1 \/ DataLinesOf(i) = <<>> THEN DataLinesOf(i) ELSE Tail(DataLinesOf(i))

C6_EmptyInputDoesNotFail ==
    input_dir = <<>> => ~(pc = 2 /\ status # "running")

\* C6 (amended): with no *.csv file in the input directory the loading cell
\* fails (pd.concat raises ValueError on the empty list): the run stops in
\* the ingestion stage, no daily table is bound and no output is written.
C6_EmptyInputFailsInIngestion ==
    input_dir = <<>> =>
        /\ pc <= 2
        /\ status \in {"running", "ValueError"}
        /\ df = EmptyFrame
        /\ output_file = <<>>
        /\ written = <<>>

\* The loading cell has raised on the empty file list.
C6_Witness ==
    /\ input_dir = <<>>
    /\ pc = 2
    /\ status = "ValueError"
    /\ df_list = <<>>

\* C7: every run of the pipeline on the unchanged input directory writes the
\* same table, and the output file holds exactly the table of the last run.
C7_Idempotence ==
    /\ \A i, j \in 1..Len(written) : written[i] = written[j]
    /\ written # <<>> => output_file = <<written[Len(written)]>>
    /\ written = <<>> => output_file = <<>>

\* A second run over two files has written a table of two weekly rows.
C7_Witness ==
    /\ Len(written) = 2
    /\ runs = 2
    /\ status = "done"
    /\ Len(files) = 2
    /\ Len(written[2]) = 3

\* x is a greatest element of the finite fractions vals.
IsMaxOf(x, vals) ==
    /\ x \in Seq2Set(vals)
    /\ \A v \in Seq2Set(vals) : ~RatLt(x, v)

\* C8: the scaling factor is max(out) / max(in) over all rows of the
\* Combined Daily Table, one constant for the run.
C8_ScaleFactor ==
    pc >= 6 =>
        \E mi \in Seq2Set(Col(df, "in")), mo \in Seq2Set(Col(df, "out")) :
            /\ IsMaxOf(mi, Col(df, "in"))
            /\ IsMaxOf(mo, Col(df, "out"))
            /\ IF mi.n = 0 THEN scaling_factor.d = 0
               ELSE /\ scaling_factor.d # 0
                    /\ scaling_factor.n * mi.n * mo.d = mo.n * mi.d * scaling_factor.d

\* Daily maxima 100 and 1000 give the factor 10, while the weekly means
\* have other maxima (in 75 and out 750 in the first week, 50 and 500 in
\* the second).
C8_Witness ==
    /\ pc >= 6
    /\ in_max = FInt(100)
    /\ out_max = FInt(1000)
    /\ scaling_factor = FInt(10)
    /\ Len(weekly_df.rows) = 2
    /\ Len(df.rows) = 3

\* The weekly out means and the labels pd.cut gives them.
OutMeans == Col(weekly_df, "out_mean")
OutLabels == Cut(OutMeans, NBINS)

LabelsInRange(lab) ==
    \A i \in 1..Len(lab) : lab[i].d = 1 /\ lab[i].n \in 1..48

LabelsMonotonic(v, lab) ==
    \A i, j \in 1..Len(v) : ~RatLt(v[j], v[i]) => lab[i].n <= lab[j].n

MinMaxLabels(v, lab) ==
    \A i \in 1..Len(v) :
        /\ (\A w \in Seq2Set(v) : ~RatLt(v[i], w)) => lab[i] = FInt(48)
        /\ (\A w \in Seq2Set(v) : ~RatLt(w, v[i])) => lab[i] = FInt(1)

\* C9 (as claimed): for any series, every label is in 1..48, labels are
\* monotonic in the value, the minimum maps to 1 and the maximum to 48.
C9_QuantizeBoundsAnySeries ==
    pc >= 6 =>
        LET v == OutMeans
            lab == OutLabels
        IN  LabelsInRange(lab) /\ LabelsMonotonic(v, lab) /\ MinMaxLabels(v, lab)

\* C9 (amended): for any non-empty series, every label is an integer in
\* 1..48 and labels are monotonic non-decreasing in the value; if the series
\* has at least two distinct values the minimum maps to 1 and the maximum
\* to 48; if it has one distinct value, every value gets the same label,
\* which lies strictly between 1 and 48.
C9_QuantizeBounds ==
    pc >= 6 =>
        LET v == OutMeans
            lab == OutLabels
        IN  /\ v # <<>>
            /\ Len(lab) = Len(v)
            /\ LabelsInRange(lab)
            /\ LabelsMonotonic(v, lab)
            /\ IF Cardinality(Seq2Set(v)) >= 2
               THEN MinMaxLabels(v, lab)
               ELSE \A i \in 1..Len(lab) : lab[i] = lab[1] /\ lab[i].n \in 2..47

\* Three distinct weekly means get the labels 1, 48 and one in between.
C9_Witness ==
    /\ pc >= 6
    /\ Cardinality(Seq2Set(OutMeans)) = 3
    /\ LET lab == OutLabels
       IN  \E i, j, k \in 1..3 :
              /\ lab[i] = FInt(1)
              /\ lab[j].n \in 2..47
              /\ lab[k] = FInt(48)

\* C10 (as claimed): every value of the scaled quantized series is an
\* integer >= 1.
C10_ScaledSeriesIsIntegerAtLeast1 ==
    pc >= 6 =>
        \A i \in 1..Len(out_quant_scaled) :
            out_quant_scaled[i].d = 1 /\ out_quant_scaled[i].n >= 1

\* The daily rows (positions in df) of the group of weekly row i.
DaysOf(i) ==
    LET y == Col(df, "Year")  w == Col(df, "Week_Number")
    IN  { j \in 1..Len(df.rows) :
            /\ y[j] = Col(weekly_df, "Year")[i]
            /\ w[j] = Col(weekly_df, "Week_Number")[i] }

\* C11: once the weekly table is built, for every weekly row and for each
\* of Month_Start and Year_Start, the weekly flag is 0 or 256, and it is 256
\* exactly when at least one daily row of the group carries 256.
C11_FlagPropagation ==
    pc >= 5 =>
        \A c \in {"Month_Start", "Year_Start"} :
            LET weekly == Col(weekly_df, c)  daily == Col(df, c)
            IN  \A i \in 1..Len(weekly) :
                    /\ weekly[i] \in {0, FLAG}
                    /\ weekly[i] = FLAG <=> \E j \in DaysOf(i) : daily[j] = FLAG

\* A week of several days whose first day is no month start and whose last
\* day is one: the weekly Month_Start is 256, the weekly Year_Start 0.
C11_Witness ==
    /\ pc >= 5
    /\ \E i \in 1..Len(weekly_df.rows) :
          LET days == DaysOf(i)  daily == Col(df, "Month_Start")
          IN  /\ Cardinality(days) >= 2
              /\ \E j \in days : daily[j] = 0 /\ \E k \in days : k > j /\ daily[k] = FLAG
              /\ Col(weekly_df, "Month_Start")[i] = FLAG
              /\ Col(weekly_df, "Year_Start")[i] = 0

\* The sum of daily column c over the daily rows in the set days.
SumOver(c, days) ==
    LET v == Col(df, c)
    IN  FSum([j \in 1..Len(v) |-> IF j \in days THEN v[j] ELSE FZero])

\* C12: once the weekly table is built, for every weekly row the group has
\* n >= 1 daily rows and in_mean (out_mean) times n is the sum of in (out)
\* over exactly those n rows, whatever n is; in particular a group whose
\* three daily in values are 10, 20 and 30 has in_mean = 20.
C12_WeeklyMean ==
    pc >= 5 =>
        \A i \in 1..Len(weekly_df.rows) :
            LET days == DaysOf(i)
                n == Cardinality(days)
                in_mean == Col(weekly_df, "in_mean")[i]
                out_mean == Col(weekly_df, "out_mean")[i]
            IN  /\ n >= 1
                /\ FMul(in_mean, FInt(n)) = SumOver("in", days)
                /\ FMul(out_mean, FInt(n)) = SumOver("out", days)
                /\ (/\ n = 3
                    /\ { Col(df, "in")[j] : j \in days } = {FInt(10), FInt(20), FInt(30)})
                   => in_mean = FInt(20)

\* A partial week of three days with in = 10, 20, 30 and out = 1, 2, 3:
\* in_mean = 20 and out_mean = 2.
C12_Witness ==
    /\ pc >= 5
    /\ \E i \in 1..Len(weekly_df.rows) :
          /\ Cardinality(DaysOf(i)) = 3
          /\ { Col(df, "in")[j] : j \in DaysOf(i) } = {FInt(10), FInt(20), FInt(30)}
          /\ Col(weekly_df, "in_mean")[i] = FInt(20)
          /\ Col(weekly_df, "out_mean")[i] = FInt(2)

\* t falls a whole number of weeks from Monday 2024-01-01.
SameWeekdayAsMonday(t) == (Ordinal(t) - Ordinal(<<2024, 1, 1>>)) % 7 = 0

\* C13: once the time features are derived, every daily row has
\* Week_Start = 256 if its date is a Monday and 0 otherwise, Month_Start = 256
\* if it is day 1 of its month and 0 otherwise, Year_Start = 256 if it is
\* 1 January and 0 otherwise, hence Year_Start = 256 only with
\* Month_Start = 256; 2024-01-01 has the three flags 256 and 2024-01-02 has
\* the three flags 0.
C13_DailyFlags ==
    pc >= 4 =>
        LET t == Col(df, "Time")
            ws == Col(df, "Week_Start")
            ms == Col(df, "Month_Start")
            ys == Col(df, "Year_Start")
        IN  \A i \in 1..Len(t) :
                /\ ws[i] = IF SameWeekdayAsMonday(t[i]) THEN 256 ELSE 0
                /\ ms[i] = IF t[i][3] = 1 THEN 256 ELSE 0
                /\ ys[i] = IF t[i][2] = 1 /\ t[i][3] = 1 THEN 256 ELSE 0
                /\ ys[i] = 256 => ms[i] = 256
                /\ t[i] = <<2024, 1, 1>> => <<ws[i], ms[i], ys[i]>> = <<256, 256, 256>>
                /\ t[i] = <<2024, 1, 2>> => <<ws[i], ms[i], ys[i]>> = <<0, 0, 0>>

\* The daily table holds 2024-01-01 with the flags 256, 256, 256 and
\* 2024-01-02 with the flags 0, 0, 0.
C13_Witness ==
    /\ pc >= 4
    /\ \E i, j \in 1..Len(df.rows) :
          /\ Col(df, "Time")[i] = <<2024, 1, 1>>
          /\ Col(df, "Time")[j] = <<2024, 1, 2>>
          /\ Col(df, "Week_Start")[i] = 256 /\ Col(df, "Year_Start")[i] = 256
          /\ Col(df, "Week_Start")[j] = 0 /\ Col(df, "Month_Start")[j] = 0

\* The cell at pc raised: the run has aborted there.
Aborted == status \notin {"running", "done"}

\* C14: in every step of the notebook
\*  (1) a cell that completes hands over to the next cell in order, and only
\*      the cell at pc runs;
\*  (2) a cell that raises leaves the run at that cell and leaves the output
\*      file as it was;
\*  (3) once a run has aborted or finished, no cell executes again in that
\*      run: the only possible step starts a new run from the first cell, and
\*      it does not touch the output file;
\*  (4) the output file is written only by the last cell, reached in this run
\*      through every earlier cell, and that write ends the run;
\*  (5) if any Time cell of the daily table cannot be parsed, the time-feature
\*      cell raises and leaves the daily table as it was (no row is skipped).
C14_StagesInSequence ==
    [][ /\ (status = "running" /\ status' = "running") => pc' = pc + 1
        /\ (status = "running" /\ status' \notin {"running", "done"}) =>
              /\ pc' = pc
              /\ output_file' = output_file
              /\ written' = written
        /\ status # "running" =>
              /\ pc' = 1 /\ status' = "running" /\ runs' = runs + 1
              /\ output_file' = output_file
              /\ written' = written
        /\ (output_file' # output_file \/ written' # written) =>
              /\ pc = 7 /\ status = "running"
              /\ pc' = 8 /\ status' = "done"
              /\ written' = Append(written, output_file'[1])
        /\ (/\ status = "running" /\ pc = 3
            /\ \E i \in 1..Len(df.rows) : ~Parseable(Col(df, "Time")[i])) =>
              /\ Aborted'
              /\ pc' = 3
              /\ df' = df
      ]_vars

\* A second run has aborted in the time-feature cell on a daily table that
\* holds dates and one cell that is no date; no output file exists.
C14_Witness ==
    /\ status = "DateParseError"
    /\ pc = 3
    /\ runs >= 2
    /\ output_file = <<>>
    /\ written = <<>>
    /\ weekly_df = EmptyFrame
    /\ \E i, j \in 1..Len(df.rows) :
          /\ Parseable(Col(df, "Time")[i])
          /\ ~Parseable(Col(df, "Time")[j])

\* The parsed data rows of the i-th file in discovery order that the header
\* handling keeps: all of them for the first file, all but the first for a
\* later file.
KeptByOrder(i) ==
    LET rows == DataLinesOf(i)
    IN  IF i = 1 THEN rows ELSE SubSeq(rows, 2, Len(rows))

NonZeroOut(rows) == SelectSeq(rows, LAMBDA r : r[3].n # 0)

\* The rows the load loop and the concatenation produce for the files fs.
LoadedRows(fs) == Seq2Set(Concat(LoadLoop(fs, <<>>, FALSE).df_list).rows)

Reversed(fs) == [i \in 1..Len(fs) |-> fs[Len(fs) + 1 - i]]

KeepsColumns(f, g) ==
    /\ Len(g.rows) = Len(f.rows)
    /\ \A j \in 1..Len(f.columns) :
          /\ HasCol(g, f.columns[j])
          /\ Col(g, f.columns[j]) = Col(f, f.columns[j])

\* The column called name of the CSV text t (header line first).
CsvCol(t, name) ==
    LET k == CHOOSE j \in 1..Len(t[1]) : t[1][j] = name
    IN  [i \in 1..(Len(t) - 1) |-> t[i + 1][k]]

TrendColumns == { <<"in", "in_up", "in_down">>, <<"out", "out_up", "out_down">> }

\* C17: in every row of the output file and for each series s of in and
\* out, s_up is 0 or the row's s, s_down is 0 or the row's s, the two are
\* not both nonzero, and if the row has a previous row and its s is nonzero
\* and differs from the previous row's s, exactly one of s_up and s_down
\* equals s.
C17_TrendColumnsExclusive ==
    output_file # <<>> =>
        \A c \in TrendColumns :
            LET s == CsvCol(output_file[1], c[1])
                up == CsvCol(output_file[1], c[2])
                down == CsvCol(output_file[1], c[3])
            IN  \A i \in 1..Len(s) :
                    /\ up[i] \in {FZero, s[i]}
                    /\ down[i] \in {FZero, s[i]}
                    /\ ~(up[i] # FZero /\ down[i] # FZero)
                    /\ (i > 1 /\ s[i] # FZero /\ s[i] # s[i - 1]) =>
                          (up[i] = s[i]) # (down[i] = s[i])

\* An output file of three rows with in = [10, 20, 10] and out = [5, 5, 3]:
\* a rise (in_up = in), a fall (in_down = in) and a repeated value (out_up =
\* out_down = 0 next to out = 5).
C17_Witness ==
    /\ output_file # <<>>
    /\ CsvCol(output_file[1], "in") = <<FInt(10), FInt(20), FInt(10)>>
    /\ CsvCol(output_file[1], "in_up") = <<FZero, FInt(20), FZero>>
    /\ CsvCol(output_file[1], "in_down") = <<FZero, FZero, FInt(10)>>
    /\ CsvCol(output_file[1], "out")[2] = FInt(5)
    /\ CsvCol(output_file[1], "out_up")[2] = FZero
    /\ CsvCol(output_file[1], "out_down")[2] = FZero

====
